---- MODULE Spec2Model ----
(***************************************************************************)
(* A model of the Png2Svg vectorizer (cpp/src/vectorizer.cpp, main.cpp).   *)
(* Texts (hex colors, SVG documents) are TLA+ strings handled character by *)
(* character; every pure function of the source is an operator computed    *)
(* the way the code computes it, and every entry point is an action.       *)
(***************************************************************************)
EXTENDS Integers, Sequences, FiniteSets, TLC

VARIABLES
    hexInput, hexResult,            \* hexToRgb: argument, outcome
    nTarget, nCands, nResult,       \* findNearestColor: arguments, outcome
    data, numColors, dominant,      \* extractDominantColors: arguments, result
    extracted, working, options,    \* inspectImage: extracted and working palette, result
    svgIn, stroke, svgOut,          \* getSolid / replaceColors: arguments, result
    env, fs, run                    \* batch run: environment, files, progress

hexVars     == <<hexInput, hexResult>>
nearestVars == <<nTarget, nCands, nResult>>
imageVars   == <<data, numColors, dominant>>
inspectVars == <<extracted, working, options>>
svgVars     == <<svgIn, stroke, svgOut>>
batchVars   == <<env, fs, run>>
vars == <<hexVars, nearestVars, imageVars, inspectVars, svgVars, batchVars>>

\* The value of a result variable before the operation has run, and of
\* every variable of a component the specification at hand does not run.
\* A result variable holds <<>> before the call and <<outcome>> after it.
Idle == <<>>
Called(r) == r # Idle
Got(r) == r[1]

-----------------------------------------------------------------------------
(* std::string primitives *)

Min(a, b) == IF a < b THEN a ELSE b
Max(a, b) == IF a > b THEN a ELSE b

\* s[i] with i counted from 0, as in the code.
At(s, i) == SubSeq(s, i + 1, i + 1)

\* std::string::npos
npos == -1

\* s.substr(pos, n); the caller checks pos <= s.size() (out_of_range otherwise).
Substr(s, pos, n) == SubSeq(s, pos + 1, Min(pos + n, Len(s)))

\* s.substr(pos)
Suffix(s, pos) == SubSeq(s, pos + 1, Len(s))

\* s.find(p, pos): the least index >= pos where p occurs, or npos.
Find(s, p, pos) ==
    LET hits == {i \in pos..(Len(s) - Len(p)) : SubSeq(s, i + 1, i + Len(p)) = p}
    IN  IF hits = {} THEN npos ELSE CHOOSE i \in hits : \A j \in hits : i <= j

\* TRUE iff p occurs somewhere in s.
Contains(s, p) == Find(s, p, 0) # npos

\* The loop `while ((pos = result.find(old, pos)) != npos)
\*               { result.replace(pos, old.length(), new); pos += new.length(); }`
RECURSIVE ReplaceLoop(_, _, _, _)
ReplaceLoop(result, old, new, pos) ==
    LET at == IF old = "" /\ pos > Len(result) THEN npos ELSE Find(result, old, pos)
    IN  IF at = npos
        THEN result
        ELSE ReplaceLoop(SubSeq(result, 1, at) \o new \o Suffix(result, at + Len(old)),
                         old, new, at + Len(new))

LowerHex == "0123456789abcdef"
UpperHex == "0123456789ABCDEF"

\* The value of every character that is a digit in base 16.
HexDigitValues ==
    [c \in {At(LowerHex, v) : v \in 0..15} \cup {At(UpperHex, v) : v \in 0..15} |->
        CHOOSE v \in 0..15 : c = At(LowerHex, v) \/ c = At(UpperHex, v)]

IsHexDigit(c) == c \in DOMAIN HexDigitValues

HexDigitValue(c) == HexDigitValues[c]

\* White space, for std::stoi and for \s of the regular expressions.
IsSpace(c) == c = " " \/ c = "\n" \/ c = "\t" \/ c = "\r" \/ c = "\f"

-----------------------------------------------------------------------------
(* hexToRgb, rgbToHex *)

\* The outcome of a call that can throw.
Thrown(what) == [err |-> TRUE, what |-> what]
Value(v)     == [err |-> FALSE, val |-> v]

\* The digits strtol consumes from the front of s, folded into acc.
RECURSIVE HexPrefixValue(_, _)
HexPrefixValue(s, acc) ==
    IF s = "" \/ ~IsHexDigit(At(s, 0)) THEN acc
    ELSE HexPrefixValue(Suffix(s, 1), acc * 16 + HexDigitValue(At(s, 0)))

RECURSIVE SkipSpace(_)
SkipSpace(s) == IF s # "" /\ IsSpace(At(s, 0)) THEN SkipSpace(Suffix(s, 1)) ELSE s

\* std::stoi(s, nullptr, 16): leading white space, an optional sign, an
\* optional 0x, then as many hex digits as there are; what follows the
\* digits is ignored, and no digit at all is std::invalid_argument.
IsNegative(t) == t # "" /\ At(t, 0) = "-"

SkipSign(t) ==
    IF t # "" /\ (At(t, 0) = "-" \/ At(t, 0) = "+") THEN Suffix(t, 1) ELSE t

SkipPrefix(u) ==
    IF Len(u) >= 3 /\ At(u, 0) = "0" /\ (At(u, 1) = "x" \/ At(u, 1) = "X")
                   /\ IsHexDigit(At(u, 2))
    THEN Suffix(u, 2) ELSE u

HexDigits(d, neg) ==
    IF d = "" \/ ~IsHexDigit(At(d, 0))
    THEN Thrown("invalid_argument")
    ELSE Value(IF neg THEN 0 - HexPrefixValue(d, 0) ELSE HexPrefixValue(d, 0))

Stoi16(s) ==
    HexDigits(SkipPrefix(SkipSign(SkipSpace(s))), IsNegative(SkipSpace(s)))

\* stoi(hex.substr(pos, 2), nullptr, 16)
StoiAt(hex, pos) ==
    IF pos > Len(hex) THEN Thrown("out_of_range") ELSE Stoi16(Substr(hex, pos, 2))

\* The 3-character form with every character doubled.
RECURSIVE Doubled(_)
Doubled(s) == IF s = "" THEN "" ELSE At(s, 0) \o At(s, 0) \o Doubled(Suffix(s, 1))

\* The three stoi calls in the order of the code: the first that throws
\* ends hexToRgb.
Channels(r, g, b) ==
    IF r.err THEN r
    ELSE IF g.err THEN g
    ELSE IF b.err THEN b
    ELSE Value(<<r.val, g.val, b.val>>)

\* The text the stoi calls read: without its leading #, and the
\* 3-character form doubled.
Expanded(hexColor) ==
    LET stripped == IF hexColor # "" /\ At(hexColor, 0) = "#"
                    THEN Suffix(hexColor, 1) ELSE hexColor
    IN  IF Len(stripped) = 3 THEN Doubled(stripped) ELSE stripped

HexChannels(hex) == Channels(StoiAt(hex, 0), StoiAt(hex, 2), StoiAt(hex, 4))

hexToRgb(hexColor) == HexChannels(Expanded(hexColor))

\* "%02x" of a channel value in 0..255.
Hex2(v) == At(LowerHex, v \div 16) \o At(LowerHex, v % 16)

rgbToHex(r, g, b) == "#" \o Hex2(r) \o Hex2(g) \o Hex2(b)

-----------------------------------------------------------------------------
(* Specification SpecHex: hexToRgb on every short text over HexAlphabet *)

MaxHexLen == 7
HexAlphabet == {"#", "1", "f", "g"}

RECURSIVE TextsOfLen(_, _)
TextsOfLen(alphabet, n) ==
    IF n = 0 THEN {""}
    ELSE {t \o c : t \in TextsOfLen(alphabet, n - 1), c \in alphabet}

\* Every text over HexAlphabet of at most maxLen characters.
HexInputs(maxLen) == UNION {TextsOfLen(HexAlphabet, n) : n \in 0..maxLen}

OthersIdle(active) ==
    /\ IF "hex" \in active THEN TRUE
       ELSE hexInput = Idle /\ hexResult = Idle
    /\ IF "nearest" \in active THEN TRUE
       ELSE nTarget = Idle /\ nCands = Idle /\ nResult = Idle
    /\ IF "image" \in active THEN TRUE
       ELSE data = Idle /\ numColors = Idle /\ dominant = Idle
    /\ IF "inspect" \in active THEN TRUE
       ELSE extracted = Idle /\ working = Idle /\ options = Idle
    /\ IF "svg" \in active THEN TRUE
       ELSE svgIn = Idle /\ stroke = Idle /\ svgOut = Idle
    /\ IF "batch" \in active THEN TRUE
       ELSE env = Idle /\ fs = Idle /\ run = Idle

InitHex ==
    /\ hexInput \in HexInputs(MaxHexLen)
    /\ hexResult = Idle
    /\ OthersIdle({"hex"})

HexToRgbCall ==
    /\ hexResult = Idle
    /\ hexResult' = <<hexToRgb(hexInput)>>
    /\ UNCHANGED <<hexInput, nearestVars, imageVars, inspectVars, svgVars, batchVars>>

NextHex == HexToRgbCall

SpecHex == InitHex /\ [][NextHex]_vars

\* A text that is 3 or 6 hex digits after an optional leading '#'.
WellFormedHex(s) ==
    LET body == IF s # "" /\ At(s, 0) = "#" THEN Suffix(s, 1) ELSE s
    IN  /\ Len(body) \in {3, 6}
        /\ \A i \in 0..(Len(body) - 1) : IsHexDigit(At(body, i))

\* C6: hexToRgb fails on every input that is not 3 or 6 hex digits after an
\* optional '#'; no such input is turned into an RGB triple.
C6_MalformedHexRejected ==
    (Called(hexResult) /\ ~WellFormedHex(hexInput)) => Got(hexResult).err

-----------------------------------------------------------------------------
(* findNearestColor *)

\* std::numeric_limits<double>::max(): above every distance of two colors.
DoubleMax == 2147483647

Square(x) == x * x

\* The sum under the square root of the code's distance. The code compares
\* std::sqrt of this sum; the sum is an integer below 2^18, exact in a double,
\* and sqrt is strictly increasing there, so the two orders agree.
Distance(t, c) ==
    Square(t[1] - c[1]) + Square(t[2] - c[2]) + Square(t[3] - c[3])

\* The test `dist < minDistance` that lets a candidate replace the best so far.
CloserOrEqual(dist, minDistance) == dist <= minDistance
Closer(dist, minDistance) == dist < minDistance

\* The loop over colorList from index i on (counted from 1), with the
\* running minimum and the running answer.
RECURSIVE NearestLoop(_, _, _, _, _)
NearestLoop(targetRgb, colorList, i, minDistance, nearest) ==
    LET Measured(dist) ==
            IF Closer(dist, minDistance)
            THEN NearestLoop(targetRgb, colorList, i + 1, dist, colorList[i])
            ELSE NearestLoop(targetRgb, colorList, i + 1, minDistance, nearest)
        Converted(cRgb) ==
            IF cRgb.err THEN cRgb ELSE Measured(Distance(targetRgb, cRgb.val))
    IN  IF i > Len(colorList) THEN Value(nearest)
        ELSE Converted(hexToRgb(colorList[i]))

\* colorList is not empty (the callers see to it; colorList[0] is read first).
findNearestColor(color, colorList) ==
    LET From(targetRgb) ==
            IF targetRgb.err THEN targetRgb
            ELSE NearestLoop(targetRgb.val, colorList, 1, DoubleMax, colorList[1])
    IN  From(hexToRgb(color))

-----------------------------------------------------------------------------
(* Specification SpecNearest: findNearestColor on short candidate lists *)

MaxCands == 3

\* Valid colors with ties among them: #fff and #ffffff are one color in two
\* spellings, #7f7f7f and #818181 are equally far from #808080.
NearestColors  == {"#000000", "#ffffff", "#fff", "#7f7f7f", "#818181"}
NearestTargets == {"#101010", "#808080", "#FFF", "000"}

RECURSIVE ListsOfLen(_, _)
ListsOfLen(S, n) ==
    IF n = 0 THEN {<<>>}
    ELSE {Append(l, x) : l \in ListsOfLen(S, n - 1), x \in S}

InitNearest ==
    /\ nTarget \in NearestTargets
    /\ nCands \in UNION {ListsOfLen(NearestColors, n) : n \in 1..MaxCands}
    /\ nResult = Idle
    /\ OthersIdle({"nearest"})

FindNearestColorCall ==
    /\ nResult = Idle
    /\ nResult' = <<findNearestColor(nTarget, nCands)>>
    /\ UNCHANGED <<nTarget, nCands, hexVars, imageVars, inspectVars, svgVars, batchVars>>

NextNearest == FindNearestColorCall

SpecNearest == InitNearest /\ [][NextNearest]_vars

\* The squared RGB distance of two valid hex colors.
HexDistance(a, b) == Distance(hexToRgb(a).val, hexToRgb(b).val)

\* C7: the answer is a candidate at minimal squared distance from the
\* target, and every candidate before it in the list is strictly farther.
C7_NearestIsFirstMinimum ==
    Called(nResult) =>
        /\ ~Got(nResult).err
        /\ \E i \in 1..Len(nCands) :
              /\ nCands[i] = Got(nResult).val
              /\ \A j \in 1..Len(nCands) :
                    HexDistance(nTarget, nCands[j]) >= HexDistance(nTarget, nCands[i])
              /\ \A j \in 1..(i - 1) :
                    HexDistance(nTarget, nCands[j]) > HexDistance(nTarget, nCands[i])

\* Two different candidates tie for the minimum and the first of them is
\* not the head of the list.
C7_Witness ==
    /\ Called(nResult)
    /\ nTarget = "#808080"
    /\ nCands = <<"#000000", "#818181", "#7f7f7f">>
    /\ Got(nResult).val = "#818181"

-----------------------------------------------------------------------------
(* PixelData and extractDominantColors *)

\* A PixelData whose pixels repeat the list pat in row-major order: the
\* pixel at row y, column x is pat[(y * width + x) mod Len(pat)], cut to the
\* buffer's channel count.
Pixel(d, y, x) ==
    SubSeq(d.pat[((y * d.width + x) % Len(d.pat)) + 1], 1, d.channels)

\* The mode tag getPixels derives from the channel count.
Mode(d) ==
    CASE d.channels = 1 -> "L"
      [] d.channels = 2 -> "LA"
      [] d.channels = 3 -> "RGB"
      [] d.channels = 4 -> "RGBA"
      [] OTHER -> "UNKNOWN"

SampleDivisor == 100
AlphaThreshold == 128
QuantStep == 32

sampleStep(d) == Max(1, Min(d.width, d.height) \div SampleDivisor)

\* The (y, x) the two loops visit.
SampledCoords(d) ==
    {<<y, x>> : y \in {yy \in 0..(d.height - 1) : yy % sampleStep(d) = 0},
                x \in {xx \in 0..(d.width - 1) : xx % sampleStep(d) = 0}}

\* The visited pixels that are counted: three channels at least, and not a
\* transparent pixel of a four-channel buffer.
CountedCoords(d) ==
    {p \in SampledCoords(d) :
        /\ d.channels >= 3
        /\ ~(d.channels = 4 /\ Pixel(d, p[1], p[2])[4] < AlphaThreshold)}

Quantize(v) == (v \div QuantStep) * QuantStep

QuantizedHex(px) == rgbToHex(Quantize(px[1]), Quantize(px[2]), Quantize(px[3]))

\* The std::map colorCount after the scan: every key that was counted,
\* with the number of counted pixels that quantize to it.
colorCount(d) ==
    LET counted == CountedCoords(d)
        color   == [p \in counted |-> QuantizedHex(Pixel(d, p[1], p[2]))]
    IN  [c \in {color[p] : p \in counted} |->
            Cardinality({p \in counted : color[p] = c})]

\* What std::sort with the comparator `a.second > b.second` can leave in
\* sortedColors: the counts never increase along the vector; std::sort is
\* not a stable sort, so the order of colors with equal counts is whatever
\* the library's algorithm makes of it. SortedFrom(cc, S) is every such
\* order of the colors in S: any color of the highest count comes first.
RECURSIVE SortedFrom(_, _)
SortedFrom(cc, S) ==
    IF S = {} THEN {<<>>}
    ELSE UNION {{<<c>> \o l : l \in SortedFrom(cc, S \ {c})} :
                    c \in {m \in S : \A o \in S : cc[m] >= cc[o]}}

SortedColors(cc) == SortedFrom(cc, DOMAIN cc)

\* How many entries the loop `i < numColors && i < sortedColors.size()` copies.
TakeCountInclusive(n, size) == Min(Max(n + 1, 0), size)
TakeCount(n, size) == Min(Max(n, 0), size)

\* The palettes extractDominantColors can return.
extractDominantColors(d, n) ==
    {SubSeq(l, 1, TakeCount(n, Len(l))) : l \in SortedColors(colorCount(d))}

-----------------------------------------------------------------------------
(* Specification SpecExtract: extractDominantColors on pattern images *)

MaxPat == 4
MaxLargePat == 2
MaxNumColors == 3

\* Pixel values (r, g, b, a): two shades of one bucket, the bucket borders,
\* a transparent and a barely opaque pixel.
ExtractPixels ==
    {<<0, 0, 0, 255>>, <<31, 31, 31, 255>>, <<32, 224, 255, 128>>, <<255, 255, 255, 127>>}

\* The pixel values of the large buffers.
LargePixels == {<<0, 0, 0, 255>>, <<255, 255, 255, 127>>}

PatternsUpTo(pixels, n) == UNION {ListsOfLen(pixels, k) : k \in 1..n}

PixelData(w, h, ch, pat) == [width |-> w, height |-> h, channels |-> ch, pat |-> pat]

\* Small buffers that are scanned pixel by pixel, buffers without color
\* channels, and large ones the scan samples with a stride of 2.
ExtractImages(maxPat, maxLargePat) ==
    {PixelData(3, 2, ch, pat) : ch \in {3, 4}, pat \in PatternsUpTo(ExtractPixels, maxPat)}
    \cup {PixelData(2, 2, ch, pat) : ch \in {1, 2}, pat \in PatternsUpTo(ExtractPixels, 1)}
    \cup {PixelData(200, 201, ch, pat) :
            ch \in {3, 4}, pat \in PatternsUpTo(LargePixels, maxLargePat)}

InitExtract ==
    /\ data \in ExtractImages(MaxPat, MaxLargePat)
    /\ numColors \in 0..MaxNumColors
    /\ dominant = Idle
    /\ OthersIdle({"image"})

ExtractDominantColorsCall ==
    /\ dominant = Idle
    /\ \E palette \in extractDominantColors(data, numColors) : dominant' = <<palette>>
    /\ UNCHANGED <<data, numColors, hexVars, nearestVars, inspectVars, svgVars, batchVars>>

NextExtract == ExtractDominantColorsCall

SpecExtract == InitExtract /\ [][NextExtract]_vars

\* The distinct quantized colors of the sampled pixels that are not
\* transparent, read off the buffer pixel by pixel.
SampledQuantized(d) ==
    {<<(Pixel(d, y, x)[1] \div 32) * 32, (Pixel(d, y, x)[2] \div 32) * 32,
       (Pixel(d, y, x)[3] \div 32) * 32>> :
        <<y, x>> \in {p \in {yy \in 0..(d.height - 1) : yy % sampleStep(d) = 0}
                              \X {xx \in 0..(d.width - 1) : xx % sampleStep(d) = 0} :
                        /\ d.channels >= 3
                        /\ (d.channels = 4 => Pixel(d, p[1], p[2])[4] >= 128)}}

\* C8: at most numColors colors and at most as many as there are distinct
\* quantized sampled colors, pairwise distinct, every channel a multiple of
\* 32 in 0..224, and nothing from a buffer with fewer than 3 channels.
C8_PaletteBounded ==
    Called(dominant) =>
        LET palette == Got(dominant)
        IN  /\ Len(palette) <= numColors
            /\ Len(palette) <= Cardinality(SampledQuantized(data))
            /\ \A i, j \in 1..Len(palette) : i # j => palette[i] # palette[j]
            /\ \A i \in 1..Len(palette) :
                  /\ ~hexToRgb(palette[i]).err
                  /\ \A k \in 1..3 :
                        /\ hexToRgb(palette[i]).val[k] % 32 = 0
                        /\ hexToRgb(palette[i]).val[k] \in 0..224
            /\ (data.channels < 3 => palette = <<>>)

\* A sampled large buffer whose second color falls between the samples:
\* two colors were asked for and the one sampled color is returned.
C8_Witness ==
    /\ Called(dominant)
    /\ data.width = 200
    /\ sampleStep(data) = 2
    /\ Len(data.pat) = 2 /\ data.pat[1][1] = 0 /\ data.pat[2][1] = 255
    /\ data.channels = 3
    /\ numColors = 2
    /\ Got(dominant) = <<"#000000">>

\* The counted pixels of the scan that quantize to the color c.
PixelsOfColor(d, c) == {p \in CountedCoords(d) : QuantizedHex(Pixel(d, p[1], p[2])) = c}

Frequency(d, c) == Cardinality(PixelsOfColor(d, c))

\* The row-major position at which the scan first meets the color c.
FirstSeen(d, c) ==
    LET at == {p[1] * d.width + p[2] : p \in PixelsOfColor(d, c)}
    IN  CHOOSE n \in at : \A m \in at : n <= m

\* C15: along the returned palette the frequencies never increase, and of
\* two colors of equal frequency the one the scan met first comes first.
C15_FrequencyThenFirstSeen ==
    Called(dominant) =>
        \A i, j \in 1..Len(Got(dominant)) :
            i < j =>
                \/ Frequency(data, Got(dominant)[i]) > Frequency(data, Got(dominant)[j])
                \/ /\ Frequency(data, Got(dominant)[i]) = Frequency(data, Got(dominant)[j])
                   /\ FirstSeen(data, Got(dominant)[i]) < FirstSeen(data, Got(dominant)[j])

-----------------------------------------------------------------------------
(* getPixels and inspectImage *)

\* The file stbi_load cannot decode: no buffer comes back.
Undecodable == PixelData(0, 0, 0, <<>>)

getPixels(file) ==
    IF file = Undecodable THEN Thrown("Failed to load image") ELSE Value(file)

InspectColors == 5
WhiteAbove == 200
BlackBelow == 50
MaxOptions == 4

Black == "#000000"

VectorizationOption(step, colors) == [step |-> step, colors |-> colors]

\* isWhiteBackground of the palette's first color.
isWhiteBackground(palette) ==
    \A channel \in 1..3 : hexToRgb(palette[1]).val[channel] > WhiteAbove

\* The erase without the size guard.
WorkingPaletteUnguarded(palette) ==
    IF isWhiteBackground(palette) THEN Tail(palette) ELSE palette

\* The palette after `if (isWhiteBackground && palette.size() > 1) erase(begin)`.
WorkingPalette(palette) ==
    IF isWhiteBackground(palette) /\ Len(palette) > 1 THEN Tail(palette) ELSE palette

\* isBlackAndWhite, decided on the last color of the working palette.
isBlackAndWhiteByFirst(palette) ==
    /\ palette # <<>>
    /\ \A channel \in 1..3 : hexToRgb(palette[1]).val[channel] < BlackBelow
isBlackAndWhite(palette) ==
    /\ palette # <<>>
    /\ \A channel \in 1..3 : hexToRgb(palette[Len(palette)]).val[channel] < BlackBelow

\* The loop `for (i = 1; i <= min(4, palette.size()); ++i)`.
StepOptionsUncapped(palette) ==
    [i \in 1..Len(palette) |-> VectorizationOption(i, SubSeq(palette, 1, i))]
StepOptions(palette) ==
    [i \in 1..Min(MaxOptions, Len(palette)) |->
        VectorizationOption(i, SubSeq(palette, 1, i))]

\* The options inspectImage builds from the palette extractDominantColors
\* returned.
InspectOptions(palette) ==
    IF palette = <<>>
    THEN <<VectorizationOption(1, <<Black>>)>>
    ELSE IF isBlackAndWhite(WorkingPalette(palette))
         THEN <<VectorizationOption(1, <<Black>>)>>
         ELSE StepOptions(WorkingPalette(palette))

-----------------------------------------------------------------------------
(* Specification SpecInspect: inspectImage on pattern images *)

MaxInspectPat == 5

\* Near-white (quantized to e0e0e0), black, near-black (quantized to
\* 202020), a bright red, and a light gray that quantizes to c0c0c0.
InspectPixels ==
    {<<254, 254, 254, 255>>, <<0, 0, 0, 255>>, <<40, 40, 63, 255>>,
     <<255, 0, 0, 255>>, <<210, 210, 210, 255>>}

InspectImages(maxPat) ==
    {PixelData(3, 2, 3, pat) : pat \in PatternsUpTo(InspectPixels, maxPat)}
    \cup {PixelData(2, 2, ch, <<<<255, 255, 255, 255>>>>) : ch \in {1, 2, 4}}
    \cup {PixelData(1, 1, 4, <<<<255, 0, 0, 0>>>>),
          PixelData(200, 200, 4, <<<<255, 0, 0, 255>>, <<0, 0, 0, 255>>>>),
          Undecodable}

InitInspect ==
    /\ data \in InspectImages(MaxInspectPat)
    /\ extracted = Idle
    /\ working = Idle
    /\ options = Idle
    /\ numColors = Idle /\ dominant = Idle
    /\ OthersIdle({"image", "inspect"})

\* getPixels throws and inspectImage with it.
InspectImageFails ==
    /\ options = Idle
    /\ getPixels(data).err
    /\ options' = <<getPixels(data)>>
    /\ UNCHANGED <<extracted, working, imageVars, hexVars, nearestVars, svgVars, batchVars>>

InspectImageReturns ==
    /\ options = Idle
    /\ ~getPixels(data).err
    /\ \E palette \in extractDominantColors(getPixels(data).val, InspectColors) :
          /\ extracted' = <<palette>>
          /\ working' = <<IF palette = <<>> THEN palette ELSE WorkingPalette(palette)>>
          /\ options' = <<Value(InspectOptions(palette))>>
    /\ UNCHANGED <<imageVars, hexVars, nearestVars, svgVars, batchVars>>

NextInspect == InspectImageFails \/ InspectImageReturns

SpecInspect == InitInspect /\ [][NextInspect]_vars

Returned(r) == Called(r) /\ ~Got(r).err

NearWhite(c) == \A k \in 1..3 : hexToRgb(c).val[k] > 200
NearBlack(c) == \A k \in 1..3 : hexToRgb(c).val[k] < 50

SingleBlack == <<[step |-> 1, colors |-> <<"#000000">>]>>

\* The working palette as the claims describe it: the extracted palette
\* without its near-white first color, unless that is its only color.
AfterBackgroundDrop(pal) ==
    IF Len(pal) > 1 /\ NearWhite(pal[1]) THEN Tail(pal) ELSE pal

\* The fallback path (nothing extracted) or the black-and-white path (the
\* last color of the working palette is near-black) is taken.
TakesSinglePath(pal) ==
    \/ pal = <<>>
    \/ NearBlack(AfterBackgroundDrop(pal)[Len(AfterBackgroundDrop(pal))])

\* C9: off the fallback and black-and-white paths the k-th of the
\* min(4, size) options has step k and the first k colors of the working
\* palette; in every case there is an option, and every option has
\* step >= 1 and as many colors as its step.
C9_OptionsArePrefixes ==
    Returned(options) =>
        LET opts == Got(options).val
            work == AfterBackgroundDrop(Got(extracted))
        IN  /\ Len(opts) >= 1
            /\ \A k \in 1..Len(opts) : opts[k].step >= 1 /\ Len(opts[k].colors) = opts[k].step
            /\ ~TakesSinglePath(Got(extracted)) =>
                  /\ Len(opts) = (IF Len(work) < 4 THEN Len(work) ELSE 4)
                  /\ \A k \in 1..Len(opts) :
                        /\ opts[k].step = k
                        /\ \A m \in 1..k : opts[k].colors[m] = work[m]

\* Five colors were extracted, none dropped: four options, the cap at work.
C9_Witness ==
    /\ Returned(options)
    /\ Len(Got(extracted)) = 5
    /\ ~NearWhite(Got(extracted)[1])
    /\ Len(Got(options).val) = 4
    /\ Got(options).val[4].colors = SubSeq(Got(extracted), 1, 4)

\* C10: the single option (1, [#000000]) is returned exactly when nothing
\* was extracted or the last color left in the working palette is
\* near-black; a palette of a near-white color followed by bright colors
\* only is not black-and-white, and none of its options holds the dropped
\* background color.
C10_SingleBlackExactly ==
    Returned(options) =>
        LET opts == Got(options).val
            pal  == Got(extracted)
            work == AfterBackgroundDrop(pal)
        IN  /\ (opts = SingleBlack) <=> (pal = <<>> \/ NearBlack(work[Len(work)]))
            /\ (/\ Len(pal) >= 2
                /\ NearWhite(pal[1])
                /\ \A i \in 2..Len(pal) : ~NearBlack(pal[i]))
               => /\ opts # SingleBlack
                  /\ Len(opts) = (IF Len(pal) - 1 < 4 THEN Len(pal) - 1 ELSE 4)
                  /\ \A k \in 1..Len(opts) :
                        /\ opts[k].colors = SubSeq(pal, 2, k + 1)
                        /\ \A m \in 1..Len(opts[k].colors) : opts[k].colors[m] # pal[1]

\* A near-white background followed by two bright colors: it is dropped
\* and two options come back.
C10_Witness ==
    /\ Returned(options)
    /\ Got(extracted) = <<"#e0e0e0", "#e00000", "#c0c0c0">>
    /\ Len(Got(options).val) = 2
    /\ Got(options).val[2].colors = <<"#e00000", "#c0c0c0">>

\* The first color of the extracted palette was taken out of the working
\* palette, and nothing else was changed.
Dropped == Got(extracted) # <<>> /\ Got(working) = Tail(Got(extracted))

\* C16 as stated: the first extracted color is dropped exactly when it is
\* near-white and more than one color remains after the drop; otherwise the
\* working palette is the extracted palette.
C16_DroppedIffMoreThanOneRemains ==
    (Returned(options) /\ Got(extracted) # <<>>) =>
        /\ Dropped <=> (NearWhite(Got(extracted)[1]) /\ Len(Got(extracted)) - 1 > 1)
        /\ ~Dropped => Got(working) = Got(extracted)

\* C16 amended: the first extracted color is dropped exactly when it is
\* near-white and at least one color remains after the drop; otherwise the
\* working palette is the extracted palette; the remaining colors keep
\* their order either way.
C16_DroppedIffAnotherRemains ==
    (Returned(options) /\ Got(extracted) # <<>>) =>
        /\ Dropped <=> (NearWhite(Got(extracted)[1]) /\ Len(Got(extracted)) - 1 >= 1)
        /\ ~Dropped => Got(working) = Got(extracted)

\* A near-white color and one more were extracted: the near-white one is
\* dropped and the other is all that remains.
C16_Witness ==
    /\ Returned(options)
    /\ Len(Got(extracted)) = 2
    /\ NearWhite(Got(extracted)[1])
    /\ Got(working) = <<Got(extracted)[2]>>

-----------------------------------------------------------------------------
(* Opacity arithmetic: stof, to_string, combineOpacity, rgbaToHex *)

\* A float opacity is held as an integer number of millionths. Every text
\* of the model has at most six fraction digits and a small integer part;
\* the float nearest to such a text differs from it by less than 5e-7, so
\* "%f" prints the text's value back, padded to six places.
Unit == 1000000

Digits == "0123456789"

DigitValues == [c \in {At(Digits, v) : v \in 0..9} |-> CHOOSE v \in 0..9 : c = At(Digits, v)]

IsDigit(c) == c \in DOMAIN DigitValues

\* The index after the run of digits that starts at index i of s.
RECURSIVE DigitRun(_, _)
DigitRun(s, i) == IF i < Len(s) /\ IsDigit(At(s, i)) THEN DigitRun(s, i + 1) ELSE i

RECURSIVE DecimalValue(_, _)
DecimalValue(s, acc) ==
    IF s = "" THEN acc ELSE DecimalValue(Suffix(s, 1), acc * 10 + DigitValues[At(s, 0)])

\* The first six fraction digits as millionths.
FractionValue(s) ==
    LET six == SubSeq(s \o "000000", 1, 6) IN DecimalValue(six, 0)

\* std::stof on a text of digits and dots: the longest prefix of the form
\* digits [. digits] is converted; without any digit it throws
\* std::invalid_argument.
Stof(text) ==
    LET FractionAt(n) ==
            IF n < Len(text) /\ At(text, n) = "."
            THEN SubSeq(text, n + 2, DigitRun(text, n + 1)) ELSE ""
        Converted(intPart, frac) ==
            IF intPart = "" /\ frac = ""
            THEN Thrown("invalid_argument")
            ELSE Value(DecimalValue(intPart, 0) * Unit + FractionValue(frac))
        SplitAt(n) == Converted(SubSeq(text, 1, n), FractionAt(n))
    IN  SplitAt(DigitRun(text, 0))

RECURSIVE NatText(_)
NatText(n) == IF n < 10 THEN At(Digits, n) ELSE NatText(n \div 10) \o At(Digits, n % 10)

RECURSIVE PaddedText(_, _)
PaddedText(n, width) ==
    IF width = 0 THEN "" ELSE PaddedText(n \div 10, width - 1) \o At(Digits, n % 10)

\* std::to_string(float): "%f", six digits after the point.
to_string(v) == NatText(v \div Unit) \o "." \o PaddedText(v % Unit, 6)

\* a * b of two values in 0..Unit, in millionths, rounded to the nearest
\* (the product is taken in halves of three digits to stay within TLC's
\* integers).
MulUnit(a, b) ==
    LET ah == a \div 1000  al == a % 1000
        bh == b \div 1000  bl == b % 1000
    IN  ah * bh + ((ah * bl + al * bh) * 1000 + al * bl + Unit \div 2) \div Unit

\* 1 - (1 - a) * (1 - b)
combineOpacity(a, b) == Unit - MulUnit(Unit - a, Unit - b)

\* static_cast<int>(a * c + (1 - a) * 255) of one channel c, in exact
\* arithmetic. The code computes it in binary floats, whose rounding can
\* land just below an integer the exact value reaches: for a = 0.6 and
\* c = 0 the code gets 101 where the exact value is 102. Of the opacities
\* k / Unit the two differ at 0.027451, 0.227451, 0.6, 0.8 and 0.972549
\* only, and by one.
Blend(c, a) == (a * c + (Unit - a) * 255) \div Unit

rgbaToHex(r, g, b, a) == rgbToHex(Blend(r, a), Blend(g, a), Blend(b, a))

-----------------------------------------------------------------------------
(* getSolid *)

\* std::regex_replace(s, std::regex(literal), new): every occurrence of the
\* literal found scanning s from left to right, without overlap, is replaced.
RECURSIVE RegexReplaceLiteral(_, _, _)
RegexReplaceLiteral(s, literal, new) ==
    LET at == Find(s, literal, 0)
    IN  IF at = npos THEN s
        ELSE SubSeq(s, 1, at) \o new
             \o RegexReplaceLiteral(Suffix(s, at + Len(literal)), literal, new)

OpacityPrefix == "fill-opacity=\""

IsDigitOrDot(c) == IsDigit(c) \/ c = "."

\* The index after the run of digits and dots that starts at index i of s.
RECURSIVE DigitDotRun(_, _)
DigitDotRun(s, i) ==
    IF i < Len(s) /\ IsDigitOrDot(At(s, i)) THEN DigitDotRun(s, i + 1) ELSE i

\* std::regex_search(temp, matches, fill-opacity="([\d\.]+)") from index
\* `from` on: the leftmost place where the prefix is followed by a run of
\* digits and dots that is not empty and is closed by a quote. The answer
\* is <<captured run, index after the match>>, or <<>> without a match.
RECURSIVE SearchOpacity(_, _)
SearchOpacity(temp, from) ==
    LET Captured(at, start, stop) ==
            IF stop > start /\ stop < Len(temp) /\ At(temp, stop) = "\""
            THEN <<SubSeq(temp, start + 1, stop), stop + 1>>
            ELSE SearchOpacity(temp, at + 1)
        Prefixed(at) ==
            IF at = npos THEN <<>>
            ELSE Captured(at, at + Len(OpacityPrefix),
                          DigitDotRun(temp, at + Len(OpacityPrefix)))
    IN  Prefixed(Find(temp, OpacityPrefix, from))

\* The captured texts of the loop `while (regex_search(temp, ...))
\* { ...; temp = matches.suffix(); }`, in the order they are met.
RECURSIVE OpacityTexts(_)
OpacityTexts(temp) ==
    LET Matched(m) ==
            IF m = <<>> THEN <<>> ELSE <<m[1]>> \o OpacityTexts(Suffix(temp, m[2]))
    IN  Matched(SearchOpacity(temp, 0))

\* The values of a std::set<float> from the largest down.
RECURSIVE Descending(_)
Descending(S) ==
    IF S = {} THEN <<>>
    ELSE LET top == CHOOSE v \in S : \A w \in S : v >= w
         IN  <<top>> \o Descending(S \ {top})

\* trueOpacity of position i: combined with every later (smaller) value.
RECURSIVE TrueOpacity(_, _, _)
TrueOpacity(sorted, acc, j) ==
    IF j > Len(sorted) THEN acc
    ELSE TrueOpacity(sorted, combineOpacity(acc, sorted[j]), j + 1)

\* The text the code searches for to replace an opacity attribute.
OldAttr(v) == OpacityPrefix \o to_string(v) \o "\""

NewAttr(hexColor, withStroke) ==
    IF withStroke
    THEN "fill=\"" \o hexColor \o "\" stroke-width=\"1\" stroke=\"" \o hexColor \o "\""
    ELSE "fill=\"" \o hexColor \o "\""

\* The loop over sortedOpacities from position i on.
RECURSIVE SolidLoop(_, _, _, _)
SolidLoop(result, sorted, i, withStroke) ==
    LET Replaced(hexColor) ==
            SolidLoop(ReplaceLoop(result, OldAttr(sorted[i]),
                                  NewAttr(hexColor, withStroke), 0),
                      sorted, i + 1, withStroke)
    IN  IF i > Len(sorted) THEN result
        ELSE Replaced(rgbaToHex(0, 0, 0, TrueOpacity(sorted, sorted[i], i + 1)))

getSolid(svgContent, withStroke) ==
    LET Replaced(result, unique) ==
            IF unique = {} THEN Value(result)
            ELSE Value(RegexReplaceLiteral(
                         SolidLoop(result, Descending(unique), 1, withStroke),
                         " stroke=\"none\"", ""))
        Scanned(result, texts) ==
            IF \E k \in 1..Len(texts) : Stof(texts[k]).err
            THEN Thrown("invalid_argument")
            ELSE Replaced(result, {Stof(texts[k]).val : k \in 1..Len(texts)})
        Stripped(result) == Scanned(result, OpacityTexts(result))
    IN  Stripped(RegexReplaceLiteral(svgContent, "fill=\"black\"", ""))

-----------------------------------------------------------------------------
(* Specification SpecSolid: getSolid on documents of a few elements *)

MaxElements == 2

\* The opacity values as a tracer may write them.
OpacityForms == {"0.5", "0.500000", "0.3", "0.300000", ".5", "1", "0"}

SolidElements ==
    {"<path fill-opacity=\"" \o t \o "\"/>" : t \in OpacityForms}
    \cup {"<g fill=\"black\" stroke=\"none\">", "<path d=\"M0 0\"/>",
          "<path fill-opacity=\".\"/>"}

RECURSIVE Joined(_)
Joined(l) == IF l = <<>> THEN "" ELSE Head(l) \o Joined(Tail(l))

SolidDocuments ==
    {"<svg>" \o Joined(l) \o "</svg>" :
        l \in UNION {ListsOfLen(SolidElements, n) : n \in 0..MaxElements}}

InitSolid ==
    /\ svgIn \in SolidDocuments
    /\ stroke \in BOOLEAN
    /\ svgOut = Idle
    /\ OthersIdle({"svg"})

GetSolidCall ==
    /\ svgOut = Idle
    /\ svgOut' = <<getSolid(svgIn, stroke)>>
    /\ UNCHANGED <<svgIn, stroke, hexVars, nearestVars, imageVars, inspectVars, batchVars>>

NextSolid == GetSolidCall

SpecSolid == InitSolid /\ [][NextSolid]_vars

\* Every fill-opacity attribute of the document carries a value in [0,1].
OpacitiesInUnitRange(doc) ==
    \A k \in 1..Len(OpacityTexts(doc)) :
        /\ ~Stof(OpacityTexts(doc)[k]).err
        /\ Stof(OpacityTexts(doc)[k]).val <= Unit

\* C1: the result of getSolid on a document whose fill-opacity values lie
\* in [0,1] holds no fill-opacity attribute any more.
C1_NoOpacityLeft ==
    (Called(svgOut) /\ OpacitiesInUnitRange(svgIn)) =>
        /\ ~Got(svgOut).err
        /\ ~Contains(Got(svgOut).val, "fill-opacity")

\* C11: on a document without any fill-opacity attribute getSolid returns
\* the input text character for character, fill="black" and stroke="none"
\* included.
C11_UnchangedWithoutOpacity ==
    (Called(svgOut) /\ ~Contains(svgIn, "fill-opacity")) =>
        Got(svgOut) = Value(svgIn)

\* The opacity values of the document's fill-opacity attributes.
OpacityValues(doc) == {Stof(OpacityTexts(doc)[k]).val : k \in 1..Len(OpacityTexts(doc))}

\* v combined with the values of S one after the other, from the largest
\* down.
RECURSIVE CombinedWith(_, _)
CombinedWith(v, S) ==
    IF S = {} THEN v
    ELSE LET top == CHOOSE x \in S : \A y \in S : x >= y
         IN  CombinedWith(combineOpacity(v, top), S \ {top})

\* The solid color of the regions of opacity v in a document of the given
\* opacity values.
SolidColor(v, values) == rgbaToHex(0, 0, 0, CombinedWith(v, {w \in values : w < v}))

\* C14: in the result of getSolid the regions of every opacity value of the
\* document are filled with the color of that value combined with all the
\* smaller values of the document.
C14_TrueOpacityColors ==
    (Called(svgOut) /\ OpacitiesInUnitRange(svgIn)) =>
        /\ ~Got(svgOut).err
        /\ \A v \in OpacityValues(svgIn) :
               Contains(Got(svgOut).val,
                        "fill=\"" \o SolidColor(v, OpacityValues(svgIn)) \o "\"")

-----------------------------------------------------------------------------
(* replaceColors *)

\* The characters of a color literal in the order of their codes, which is
\* the order std::set<std::string> compares by.
CodeOrder == "#0123456789ABCDEFabcdef"

CharCodes ==
    [c \in {At(CodeOrder, k) : k \in 0..(Len(CodeOrder) - 1)} |->
        CHOOSE k \in 0..(Len(CodeOrder) - 1) : c = At(CodeOrder, k)]

\* a < b as std::string compares.
RECURSIVE StringLess(_, _)
StringLess(a, b) ==
    IF b = "" THEN FALSE
    ELSE IF a = "" THEN TRUE
    ELSE IF At(a, 0) # At(b, 0) THEN CharCodes[At(a, 0)] < CharCodes[At(b, 0)]
    ELSE StringLess(Suffix(a, 1), Suffix(b, 1))

\* The elements of a std::set<std::string> in iteration order.
RECURSIVE Ascending(_)
Ascending(S) ==
    IF S = {} THEN <<>>
    ELSE LET least == CHOOSE a \in S : \A b \in S \ {a} : StringLess(a, b)
         IN  <<least>> \o Ascending(S \ {least})

\* \w of the regular expression.
IsWordChar(c) ==
    \/ IsDigit(c)
    \/ c = "_"
    \/ \E k \in 0..25 : c = At("abcdefghijklmnopqrstuvwxyz", k)
                        \/ c = At("ABCDEFGHIJKLMNOPQRSTUVWXYZ", k)

\* n hex digits start at index i of s, and \b holds after them.
HexTokenAt(s, i, n) ==
    /\ i + n <= Len(s)
    /\ \A k \in 0..(n - 1) : IsHexDigit(At(s, i + k))
    /\ (i + n = Len(s) \/ ~IsWordChar(At(s, i + n)))

\* std::regex_search(temp, match, #([a-f0-9]{3}){1,2}\b with icase) from
\* index `from` on: <<index of the match, its length>> of the leftmost
\* match, the six-digit form tried before the three-digit form; <<>>
\* without a match.
RECURSIVE SearchHex(_, _)
SearchHex(temp, from) ==
    LET Marked(at) ==
            IF at = npos THEN <<>>
            ELSE IF HexTokenAt(temp, at + 1, 6) THEN <<at, 7>>
            ELSE IF HexTokenAt(temp, at + 1, 3) THEN <<at, 4>>
            ELSE SearchHex(temp, at + 1)
    IN  Marked(Find(temp, "#", from))

\* svgColorsSet after the scanning loop.
RECURSIVE SvgColorsSet(_)
SvgColorsSet(temp) ==
    LET Matched(m) ==
            IF m = <<>> THEN {}
            ELSE {SubSeq(temp, m[1] + 1, m[1] + m[2])}
                 \cup SvgColorsSet(Suffix(temp, m[1] + m[2]))
    IN  Matched(SearchHex(temp, 0))

MaxDominant == 5

\* The loop over svgColors from position i on.
RECURSIVE MapColorsLoop(_, _, _, _)
MapColorsLoop(result, svgColors, i, dominantColors) ==
    IF i > Len(svgColors) THEN result
    ELSE MapColorsLoop(
             ReplaceLoop(result, svgColors[i],
                         findNearestColor(svgColors[i], dominantColors).val, 0),
             svgColors, i + 1, dominantColors)

\* The palettes replaceColors can get from extractDominantColors.
ReplacePalettes(svgContent, d) ==
    extractDominantColors(d, Min(Cardinality(SvgColorsSet(svgContent)), MaxDominant))

\* What replaceColors returns once the image is loaded and the palette
\* extractDominantColors returned is dominantColors.
replaceColorsWith(svgContent, d, dominantColors) ==
    LET Mapped(svgColorsSet) ==
            IF svgColorsSet = {} THEN svgContent
            ELSE IF dominantColors = <<>> THEN svgContent
            ELSE MapColorsLoop(svgContent, Ascending(svgColorsSet), 1, dominantColors)
    IN  IF Mode(d) = "L" \/ Mode(d) = "LA" THEN svgContent
        ELSE Mapped(SvgColorsSet(svgContent))

-----------------------------------------------------------------------------
(* Specification SpecReplace: replaceColors on documents of a few colors *)

MaxColorRefs == 2

\* Attribute texts: three- and six-digit literals, one a prefix of another,
\* one equal to the head of a palette color, and a text that is no literal.
ColorRefs ==
    {" fill=\"#abc\"", " fill=\"#abcdef\"", " fill=\"#e0e\"", " fill=\"#595959\"",
     " fill=\"#FFF\"", " id=\"#abcg\""}

ReplaceDocuments ==
    {"<path" \o Joined(l) \o "/>" :
        l \in UNION {ListsOfLen(ColorRefs, n) : n \in 0..MaxColorRefs}}

ReplaceImages ==
    {PixelData(3, 2, 3, pat) : pat \in PatternsUpTo(InspectPixels, 2)}
    \cup {PixelData(2, 2, 1, <<<<255, 255, 255, 255>>>>),
          PixelData(2, 2, 2, <<<<255, 255, 255, 255>>>>),
          PixelData(1, 1, 4, <<<<255, 0, 0, 0>>>>),
          Undecodable}

InitReplace ==
    /\ svgIn \in ReplaceDocuments
    /\ data \in ReplaceImages
    /\ stroke = Idle
    /\ svgOut = Idle
    /\ numColors = Idle
    /\ dominant = Idle
    /\ OthersIdle({"svg", "image"})

\* getPixels throws and replaceColors with it.
ReplaceColorsFails ==
    /\ svgOut = Idle
    /\ getPixels(data).err
    /\ svgOut' = <<getPixels(data)>>
    /\ UNCHANGED <<svgIn, stroke, imageVars, hexVars, nearestVars, inspectVars, batchVars>>

ReplaceColorsReturns ==
    /\ svgOut = Idle
    /\ ~getPixels(data).err
    /\ \E palette \in ReplacePalettes(svgIn, getPixels(data).val) :
          /\ dominant' = <<palette>>
          /\ svgOut' = <<Value(replaceColorsWith(svgIn, getPixels(data).val, palette))>>
    /\ UNCHANGED <<svgIn, stroke, data, numColors, hexVars, nearestVars, inspectVars,
                   batchVars>>

NextReplace == ReplaceColorsFails \/ ReplaceColorsReturns

SpecReplace == InitReplace /\ [][NextReplace]_vars

\* The document with every whole-token color literal replaced by its own
\* nearest palette color and every other character kept.
RECURSIVE LiteralsMapped(_, _)
LiteralsMapped(doc, palette) ==
    LET m == SearchHex(doc, 0)
    IN  IF m = <<>> THEN doc
        ELSE SubSeq(doc, 1, m[1])
             \o findNearestColor(SubSeq(doc, m[1] + 1, m[1] + m[2]), palette).val
             \o LiteralsMapped(Suffix(doc, m[1] + m[2]), palette)

\* C2: on a raster with color channels and a palette that is not empty,
\* every occurrence of every color literal is replaced by that literal's
\* nearest palette color, and nothing else is altered.
C2_WholeLiteralsMapped ==
    (Returned(svgOut) /\ data.channels >= 3 /\ Got(dominant) # <<>>) =>
        Got(svgOut).val = LiteralsMapped(svgIn, Got(dominant))

-----------------------------------------------------------------------------
(* viewboxify, optimizeSvg *)

\* std::regex_search(s, m, prefix(\d+)") from index `from` on: the digits of
\* the leftmost place where the prefix is followed by digits and a quote,
\* as <<digits>>; <<>> without a match.
RECURSIVE SearchNumberAttr(_, _, _)
SearchNumberAttr(s, prefix, from) ==
    LET Captured(at, start, stop) ==
            IF stop > start /\ stop < Len(s) /\ At(s, stop) = "\""
            THEN <<SubSeq(s, start + 1, stop)>>
            ELSE SearchNumberAttr(s, prefix, at + 1)
        Prefixed(at) ==
            IF at = npos THEN <<>>
            ELSE Captured(at, at + Len(prefix), DigitRun(s, at + Len(prefix)))
    IN  Prefixed(Find(s, prefix, from))

SvgOpen == "<svg xmlns=\"http://www.w3.org/2000/svg\""

viewboxify(svgContent) ==
    LET Spliced(oldHeader, newHeader, pos) ==
            IF pos = npos THEN svgContent
            ELSE SubSeq(svgContent, 1, pos) \o newHeader
                 \o Suffix(svgContent, pos + Len(oldHeader))
        Replaced(oldHeader, newHeader) ==
            Spliced(oldHeader, newHeader, Find(svgContent, oldHeader, 0))
        Matched(widthMatch, heightMatch) ==
            IF widthMatch = <<>> \/ heightMatch = <<>> THEN svgContent
            ELSE Replaced(SvgOpen \o " width=\"" \o widthMatch[1]
                                  \o "\" height=\"" \o heightMatch[1] \o "\">",
                          SvgOpen \o " viewBox=\"0 0 " \o widthMatch[1]
                                  \o " " \o heightMatch[1] \o "\">")
    IN  Matched(SearchNumberAttr(svgContent, "width=\"", 0),
                SearchNumberAttr(svgContent, "height=\"", 0))

\* The index after the run of white space that starts at index i of s.
RECURSIVE SpaceRun(_, _)
SpaceRun(s, i) == IF i < Len(s) /\ IsSpace(At(s, i)) THEN SpaceRun(s, i + 1) ELSE i

\* The index of the first white space of s, or npos.
FirstSpace(s) ==
    LET spaces == {i \in 0..(Len(s) - 1) : IsSpace(At(s, i))}
    IN  IF spaces = {} THEN npos ELSE CHOOSE i \in spaces : \A j \in spaces : i <= j

\* std::regex_replace(s, std::regex("\\s+"), " "): every run of white
\* space becomes one blank.
RECURSIVE CollapseSpace(_)
CollapseSpace(s) ==
    LET at == FirstSpace(s)
    IN  IF at = npos THEN s
        ELSE SubSeq(s, 1, at) \o " " \o CollapseSpace(Suffix(s, SpaceRun(s, at)))

\* The two replacements in the other order: blanks between tags go first,
\* the runs of white space are collapsed afterwards.
optimizeSvgTagsFirst(svgContent) ==
    CollapseSpace(RegexReplaceLiteral(svgContent, "> <", "><"))

optimizeSvg(svgContent) == RegexReplaceLiteral(CollapseSpace(svgContent), "> <", "><")

-----------------------------------------------------------------------------
(* Specification SpecViewbox: viewboxify on documents of a few parts *)

MaxViewElements == 2

\* The documents: a prolog (nothing, or a comment) before the root element,
\* a root header (the exact attribute pair, the pair in the other order, a
\* width that is no integer, an attribute too many, no attribute), and a
\* few elements, some with width and height text of their own.
InitViewbox ==
    LET prologs  == {"", "<!-- stroke-width=\"1\" -->", "<!-- height=\"9\" -->"}
        headers  == {SvgOpen \o " width=\"3\" height=\"2\">",
                     SvgOpen \o " width=\"10\" height=\"10\">",
                     SvgOpen \o " height=\"2\" width=\"3\">",
                     SvgOpen \o " width=\"3pt\" height=\"2\">",
                     SvgOpen \o " id=\"a\" width=\"3\" height=\"2\">",
                     SvgOpen \o ">"}
        elements == {"<path stroke-width=\"1\" stroke=\"#000000\"/>",
                     "<rect width=\"5\" height=\"6\"/>",
                     "<path d=\"M0 0\"/>"}
    IN  /\ svgIn \in {prolog \o header \o Joined(l) \o "</svg>" :
                         prolog \in prologs, header \in headers,
                         l \in UNION {ListsOfLen(elements, n) : n \in 0..MaxViewElements}}
        /\ stroke = Idle
        /\ svgOut = Idle
        /\ OthersIdle({"svg"})

ViewboxifyCall ==
    /\ svgOut = Idle
    /\ svgOut' = <<viewboxify(svgIn)>>
    /\ UNCHANGED <<svgIn, stroke, hexVars, nearestVars, imageVars, inspectVars, batchVars>>

SpecViewbox == InitViewbox /\ [][ViewboxifyCall]_vars

\* The exact root header at index `at` of doc, as <<at, W, H>>: SvgOpen,
\* then width="W" height="H"> with W and H decimal integers; <<>> if the
\* text at `at` is not of that form.
ExactHeaderAt(doc, at) ==
    LET wStart == at + Len(SvgOpen \o " width=\"")
        wStop  == DigitRun(doc, wStart)
        middle == "\" height=\""
        hStart == wStop + Len(middle)
        hStop  == DigitRun(doc, hStart)
    IN  IF /\ Substr(doc, at, wStart - at) = SvgOpen \o " width=\""
           /\ wStop > wStart
           /\ Substr(doc, wStop, Len(middle)) = middle
           /\ hStop > hStart
           /\ Substr(doc, hStop, 2) = "\">"
        THEN <<at, SubSeq(doc, wStart + 1, wStop), SubSeq(doc, hStart + 1, hStop), hStop + 2>>
        ELSE <<>>

\* The document with its exact root header, if it has one, rewritten to
\* the viewBox form and all other text as it was.
WithViewBox(doc) ==
    LET at == Find(doc, SvgOpen, 0)
        h  == IF at = npos THEN <<>> ELSE ExactHeaderAt(doc, at)
    IN  IF h = <<>> THEN doc
        ELSE SubSeq(doc, 1, at) \o SvgOpen \o " viewBox=\"0 0 " \o h[2] \o " " \o h[3]
             \o "\">" \o Suffix(doc, h[4])

\* C12: a document with the exact root header comes back with that header
\* in the viewBox form and nothing else changed, whatever other width and
\* height text it holds; a document without it comes back unchanged.
C12_HeaderRewritten ==
    Called(svgOut) => Got(svgOut) = WithViewBox(svgIn)

-----------------------------------------------------------------------------
(* Specification SpecOptimize: optimizeSvg applied to a text, then to its result *)

MaxOptimizeLen == 5

\* Texts of tag brackets, white space of two kinds and a letter.
InitOptimize ==
    /\ svgIn \in UNION {TextsOfLen({">", "<", " ", "\n", "a"}, n) : n \in 0..MaxOptimizeLen}
    /\ stroke = Idle
    /\ svgOut = Idle
    /\ OthersIdle({"svg"})

\* svgOut holds the results in the order of the calls: the first call takes
\* svgIn, the second takes the result of the first.
OptimizeSvgCall ==
    /\ Len(svgOut) < 2
    /\ svgOut' = Append(svgOut, optimizeSvg(IF svgOut = Idle THEN svgIn ELSE svgOut[1]))
    /\ UNCHANGED <<svgIn, stroke, hexVars, nearestVars, imageVars, inspectVars, batchVars>>

SpecOptimize == InitOptimize /\ [][OptimizeSvgCall]_vars

\* No two white space characters side by side in s.
NoSpaceRun(s) ==
    \A i \in 0..(Len(s) - 2) : ~(IsSpace(At(s, i)) /\ IsSpace(At(s, i + 1)))

\* C13: the result of optimizeSvg holds no run of two or more white space
\* characters and no "> <", and a second application returns the result of
\* the first.
C13_OptimizeIdempotent ==
    /\ Called(svgOut) => NoSpaceRun(Got(svgOut)) /\ ~Contains(Got(svgOut), "> <")
    /\ Len(svgOut) = 2 => svgOut[2] = svgOut[1]

\* Both calls made on a text with a run of white space between two tags,
\* which the first call removed.
C13_Witness ==
    /\ Len(svgOut) = 2
    /\ Contains(svgIn, "> \n<")
    /\ Contains(svgOut[1], "><")
    /\ Len(svgOut[1]) < Len(svgIn)

-----------------------------------------------------------------------------
(* parseImage *)

\* What a call of parseImage leaves behind: how it ended (the returned text
\* or the exception), whether /tmp/<name>_temp.bmp and /tmp/<name>_temp.svg
\* exist, and the text written to ./<name>.svg (<<text>>, or <<>> when
\* nothing was written).
ParseOutcome(ret, bmp, svg, written) ==
    [ret |-> ret, tmpBmp |-> bmp, tmpSvg |-> svg, written |-> written]

\* The texts the rewriting after the tracer can produce from the traced
\* text: getSolid, then the recoloring of the step, then optimizeSvg and
\* viewboxify; or the exception that ends it.
RewriteResults(svgContent, file, step, colors) ==
    LET Recolored(text) ==
            IF step = 1 /\ colors # <<>>
            THEN {RegexReplaceLiteral(text, "#000000", colors[1])}
            ELSE IF step > 1
            THEN {replaceColorsWith(text, file, palette) :
                     palette \in ReplacePalettes(text, file)}
            ELSE {text}
        Finished(solid) ==
            IF solid.err THEN {solid}
            ELSE {Value(viewboxify(optimizeSvg(text))) : text \in Recolored(solid.val)}
    IN  Finished(getSolid(svgContent, step # 1))

\* parseImage(imageName, step, colors) where ./<name>.png is `file`,
\* `installed` says whether `which potrace` succeeds, and the tracer run
\* ends with exit code tracer.exit, having created its output file with
\* the text tracer.content iff tracer.wrote.
parseImage(file, step, colors, installed, tracer) ==
    IF ~installed
    THEN {ParseOutcome(Thrown("Potrace is not installed. Please install it first."),
                       FALSE, FALSE, <<>>)}
    ELSE IF getPixels(file).err
    THEN {ParseOutcome(Thrown(IF step > 1 THEN "Failed to load image for posterization"
                                         ELSE "Failed to load image"),
                       FALSE, FALSE, <<>>)}
    ELSE IF tracer.exit # 0
    THEN {ParseOutcome(Thrown("Potrace failed"), FALSE, tracer.wrote, <<>>)}
    ELSE {ParseOutcome(r, FALSE, FALSE, IF r.err THEN <<>> ELSE <<r.val>>) :
             r \in RewriteResults(IF tracer.wrote THEN tracer.content ELSE "",
                                  file, step, colors)}

-----------------------------------------------------------------------------
(* Specification SpecParse: one call of parseImage *)

TracedHeader == SvgOpen \o " width=\"3\" height=\"2\">\n"

\* Tracer outputs: two opacity layers, one opaque layer, and an opacity the
\* rewriting cannot parse.
TracerOutputs ==
    {TracedHeader \o "<g fill=\"black\" stroke=\"none\">\n"
        \o "<path fill-opacity=\"0.500000\"/>\n<path fill-opacity=\"0.300000\"/>\n</g>\n</svg>",
     TracedHeader \o "<path fill=\"black\" fill-opacity=\"1.000000\"/>\n</svg>",
     TracedHeader \o "<path fill-opacity=\".\"/>\n</svg>"}

\* A tracer run: its exit code, and whether it left an output file.
TracerRuns(contents) ==
    [exit : {0, 1}, wrote : BOOLEAN, content : contents]

ColorImage == PixelData(3, 2, 3, <<<<254, 254, 254, 255>>, <<255, 0, 0, 255>>,
                                   <<210, 210, 210, 255>>>>)
InkImage   == PixelData(3, 2, 3, <<<<254, 254, 254, 255>>, <<0, 0, 0, 255>>>>)
GrayImage  == PixelData(2, 2, 1, <<<<255, 255, 255, 255>>>>)

ParseArguments ==
    {<<1, <<>>>>, <<1, <<"#e00000">>>>, <<2, <<"#e00000", "#c0c0c0">>>>, <<3, <<>>>>}

NoFiles == [tmpBmp |-> FALSE, tmpSvg |-> FALSE, written |-> <<>>]

InitParse ==
    /\ env \in [installed : BOOLEAN,
                file : {ColorImage, GrayImage, Undecodable},
                tracer : TracerRuns(TracerOutputs)]
    /\ fs = NoFiles
    /\ \E a \in ParseArguments : run = [pc |-> "call", step |-> a[1], colors |-> a[2]]
    /\ OthersIdle({"batch"})

\* The call is over with outcome o.
ParseImageLeaves(o) ==
    /\ fs' = [tmpBmp |-> o.tmpBmp, tmpSvg |-> o.tmpSvg, written |-> o.written]
    /\ run' = [pc |-> IF o.ret.err THEN "threw" ELSE "returned",
               step |-> run.step, colors |-> run.colors, ret |-> o.ret]
    /\ UNCHANGED <<env, hexVars, nearestVars, imageVars, inspectVars, svgVars>>

ParseImageThrows ==
    /\ run.pc = "call"
    /\ \E o \in parseImage(env.file, run.step, run.colors, env.installed, env.tracer) :
          o.ret.err /\ ParseImageLeaves(o)

ParseImageReturns ==
    /\ run.pc = "call"
    /\ \E o \in parseImage(env.file, run.step, run.colors, env.installed, env.tracer) :
          ~o.ret.err /\ ParseImageLeaves(o)

NextParse == ParseImageThrows \/ ParseImageReturns

SpecParse == InitParse /\ [][NextParse]_vars

\* The tracer was run and reported failure, or left no output file.
TracerFailed ==
    /\ env.installed
    /\ env.file # Undecodable
    /\ (env.tracer.exit # 0 \/ ~env.tracer.wrote)

\* C3: when the tracer exits nonzero, or exits zero without an output file,
\* parseImage ends in the tracing error, writes no final SVG, and leaves
\* no temporary file.
C3_TracerFailureIsError ==
    (run.pc # "call" /\ TracerFailed) =>
        /\ run.pc = "threw"
        /\ run.ret.what = "Potrace failed"
        /\ fs.written = <<>>
        /\ ~fs.tmpBmp /\ ~fs.tmpSvg

\* C4: however parseImage ends, neither temporary file exists afterwards.
C4_TempFilesRemoved ==
    run.pc # "call" => (~fs.tmpBmp /\ ~fs.tmpSvg)

-----------------------------------------------------------------------------
(* processSingleFile, processDirectory, main *)

\* The index `std::min(optionIndex, options.size() - 1)` of auto-select
\* mode, counted from 0. Nothing keeps a negative optionIndex out: the
\* smaller of the two is then optionIndex itself.
SelectedIndex(optionIndex, size) == Min(optionIndex, size - 1)

\* What processSingleFile(pngPath, autoSelect = true, optionIndex, quiet)
\* leaves behind for a file that exists and is named *.png: its return
\* value, the message of the exception it caught (or ""), the temporary
\* files of parseImage, whether the working copy ./<name>.png is still
\* there, the text of the SVG next to the PNG (<<text>> or <<>>), and the
\* selection it made: <<idx, options.size()>>, or <<>> when it never got
\* that far.
FileOutcome(ok, what, bmp, svg, copy, beside, picked) ==
    [ok |-> ok, what |-> what, tmpBmp |-> bmp, tmpSvg |-> svg,
     workPng |-> copy, beside |-> beside, picked |-> picked]

\* What a read of options[idx] outside the vector can hand back when it
\* hands back anything: the bytes before the buffer taken for an option,
\* a stray step and no colors.
StrayOptions == {VectorizationOption(0, <<>>), VectorizationOption(808464419, <<>>)}

\* `selectedOption = options[idx]` of auto-select mode: the element at idx,
\* or, with idx outside 0..size-1, any stray option.
SelectedOption(opts, optionIndex) ==
    IF SelectedIndex(optionIndex, Len(opts)) \in 0..(Len(opts) - 1)
    THEN {opts[SelectedIndex(optionIndex, Len(opts)) + 1]}
    ELSE StrayOptions

\* The ways the copy out of options[idx] can end without a value when idx
\* is outside the vector: the stray vector's copy throws (caught by
\* processSingleFile, which returns false), or the read faults and the
\* process is killed.
SegmentationFault == "Segmentation fault"

StrayFailures(opts, optionIndex) ==
    IF SelectedIndex(optionIndex, Len(opts)) \in 0..(Len(opts) - 1)
    THEN {}
    ELSE {FileOutcome(FALSE, what, FALSE, FALSE, TRUE, <<>>,
                      <<SelectedIndex(optionIndex, Len(opts)), Len(opts)>>) :
             what \in {"std::bad_alloc", SegmentationFault}}

processSingleFile(f, installed, optionIndex) ==
    LET Parsed(selected, picked) ==
            {IF o.ret.err
             THEN FileOutcome(FALSE, o.ret.what, o.tmpBmp, o.tmpSvg, TRUE, <<>>, picked)
             ELSE FileOutcome(TRUE, "", o.tmpBmp, o.tmpSvg, FALSE, o.written, picked) :
                o \in parseImage(f.image, selected.step, selected.colors,
                                 installed, f.tracer)}
        Selected(opts) ==
            StrayFailures(opts, optionIndex)
            \cup UNION {Parsed(selected, <<SelectedIndex(optionIndex, Len(opts)), Len(opts)>>) :
                           selected \in SelectedOption(opts, optionIndex)}
    IN  IF getPixels(f.image).err
        THEN {FileOutcome(FALSE, getPixels(f.image).what, FALSE, FALSE, TRUE, <<>>, <<>>)}
        ELSE UNION {Selected(InspectOptions(palette)) :
                       palette \in extractDominantColors(f.image, InspectColors)}

-----------------------------------------------------------------------------
(* Specification SpecBatch: main on a directory of PNG files *)

MaxFiles == 2

BatchTrace ==
    TracedHeader \o "<path fill=\"black\" fill-opacity=\"1.000000\"/>\n</svg>"

BatchFiles ==
    [image : {ColorImage, InkImage, Undecodable}, tracer : TracerRuns({BatchTrace})]

\* --option: std::stoi takes any integer.
OptionIndexes == {-1, 0, 1}

\* main has parsed its arguments and entered processDirectory: nothing is
\* processed yet. run.log holds one FileOutcome per processed file.
InitBatch ==
    /\ env \in [installed : BOOLEAN,
                optionIndex : OptionIndexes,
                files : UNION {ListsOfLen(BatchFiles, n) : n \in 0..MaxFiles}]
    /\ fs = [tmpBmp |-> {}, tmpSvg |-> {}, workPng |-> {}, output |-> {}]
    /\ run = [pc |-> "scan", i |-> 0, successCount |-> 0, failCount |-> 0,
              log |-> <<>>, exitCode |-> 0]
    /\ OthersIdle({"batch"})

\* `if (pngFiles.empty()) return false;`, and main returns 1.
NoPngFiles ==
    /\ run.pc = "scan"
    /\ env.files = <<>>
    /\ run' = [run EXCEPT !.pc = "done", !.exitCode = 1]
    /\ UNCHANGED <<env, fs, hexVars, nearestVars, imageVars, inspectVars, svgVars>>

\* The output directory is created and the loop entered.
EnterLoop ==
    /\ run.pc = "scan"
    /\ env.files # <<>>
    /\ run' = [run EXCEPT !.pc = "loop"]
    /\ UNCHANGED <<env, fs, hexVars, nearestVars, imageVars, inspectVars, svgVars>>

\* One pass of the loop of processDirectory, over pngFiles[run.i], in which
\* processSingleFile left o behind. successCount counts the files whose
\* SVG was moved to the output directory.
FileProcessed(o) ==
    /\ fs' = [tmpBmp  |-> fs.tmpBmp \cup (IF o.tmpBmp THEN {run.i} ELSE {}),
              tmpSvg  |-> fs.tmpSvg \cup (IF o.tmpSvg THEN {run.i} ELSE {}),
              workPng |-> fs.workPng \cup (IF o.workPng THEN {run.i} ELSE {}),
              output  |-> fs.output \cup (IF o.ok /\ o.beside # <<>>
                                          THEN {run.i} ELSE {})]
    /\ run' = [run EXCEPT
                 !.i = run.i + 1,
                 !.successCount = IF o.ok /\ o.beside # <<>> THEN @ + 1 ELSE @,
                 !.failCount = IF o.ok THEN @ ELSE @ + 1,
                 !.log = Append(@, o)]
    /\ UNCHANGED <<env, hexVars, nearestVars, imageVars, inspectVars, svgVars>>

ProcessFileSucceeds ==
    /\ run.pc = "loop"
    /\ run.i < Len(env.files)
    /\ \E o \in processSingleFile(env.files[run.i + 1], env.installed, env.optionIndex) :
          o.ok /\ FileProcessed(o)

ProcessFileFails ==
    /\ run.pc = "loop"
    /\ run.i < Len(env.files)
    /\ \E o \in processSingleFile(env.files[run.i + 1], env.installed, env.optionIndex) :
          ~o.ok /\ o.what # SegmentationFault /\ FileProcessed(o)

\* The process is killed inside processSingleFile: the working copy stays,
\* nothing is counted, and the run is over with the signal's exit status.
ProcessFileCrashes ==
    /\ run.pc = "loop"
    /\ run.i < Len(env.files)
    /\ \E o \in processSingleFile(env.files[run.i + 1], env.installed, env.optionIndex) :
          /\ o.what = SegmentationFault
          /\ fs' = [fs EXCEPT !.workPng = @ \cup {run.i}]
          /\ run' = [run EXCEPT !.pc = "killed", !.exitCode = 139, !.log = Append(@, o)]
    /\ UNCHANGED <<env, hexVars, nearestVars, imageVars, inspectVars, svgVars>>

\* The loop is over: processDirectory returns true and main returns 0.
DirectoryDone ==
    /\ run.pc = "loop"
    /\ run.i = Len(env.files)
    /\ run' = [run EXCEPT !.pc = "done", !.exitCode = 0]
    /\ UNCHANGED <<env, fs, hexVars, nearestVars, imageVars, inspectVars, svgVars>>

NextBatch ==
    \/ NoPngFiles
    \/ EnterLoop
    \/ ProcessFileSucceeds
    \/ ProcessFileFails
    \/ ProcessFileCrashes
    \/ DirectoryDone

SpecBatch == InitBatch /\ [][NextBatch]_vars

DependencyMissing(o) == o.what = "Potrace is not installed. Please install it first."

\* C5: once the tracer was found missing for one image, no further image
\* is processed and the run ends in failure.
C5_DependencyMissingEndsRun ==
    \A k \in 1..Len(run.log) :
        DependencyMissing(run.log[k]) =>
            /\ Len(run.log) = k
            /\ (run.pc = "done" => run.exitCode # 0)

\* C17: for every --option value and every file whose options were
\* obtained, the index used to pick the option lies in 0..size-1.
C17_IndexWithinOptions ==
    \A k \in 1..Len(run.log) :
        run.log[k].picked # <<>> =>
            run.log[k].picked[1] \in 0..(run.log[k].picked[2] - 1)

====
